---- MODULE Spec2Model ----
(***************************************************************************)
(* A model of jsnoop.handlers (src/src/jsnoop/handlers/__init__.py): the   *)
(* extension classification table with its ignore list, the memoized       *)
(* handler-class loader, get_handler / get_handler_obj, and AbstractFile   *)
(* (persist, prepare_checksums, info, __del__).                            *)
(*                                                                         *)
(* Python strings that the code takes apart (paths, extensions) are        *)
(* sequences of one-character strings; module and class names, which the   *)
(* code only concatenates, are TLA+ strings.                               *)
(***************************************************************************)
EXTENDS Naturals, Sequences, FiniteSets

(***************************************************************************)
(* Bounds of the model.                                                    *)
(***************************************************************************)
\* longest byte source whose copy is followed byte by byte
MaxLen == 3
\* longest ignore list the caller builds
MaxIgnored == 2
\* object slots: objects constructed and not yet finalized
MaxObjs == 2
\* worker threads calling __handler_class at the same time
MaxWorkers == 2
\* names mkdtemp can choose from
MaxTemp == 3
\* transient directories left behind after which the caller of the
\* fault-injected runs stops classifying
MaxLeaked == 1
\* the required algorithm (by position) at which a failing read strikes
FaultAt == 3

(***************************************************************************)
(* Python string operations used by the module.                            *)
(***************************************************************************)
Upper == [c \in {"m", "f", "z"} |-> CASE c = "m" -> "M" [] c = "f" -> "F" [] c = "z" -> "Z"]

\* str.lower() of one character
lowerChar(c) == IF \E l \in DOMAIN Upper : Upper[l] = c
                THEN CHOOSE l \in DOMAIN Upper : Upper[l] = c
                ELSE c

\* a string left as written (not the code's lower-casing)
as_written(s) == s

\* str.lower()
lower(s) == [i \in 1..Len(s) |-> lowerChar(s[i])]

\* os.path.sep
sep == "/"

\* str.rfind(c) for a one-character c, 1-based; 0 when c does not occur
rfind(s, c) == IF \E i \in 1..Len(s) : s[i] = c
               THEN CHOOSE i \in 1..Len(s) : s[i] = c /\ \A j \in (i+1)..Len(s) : s[j] # c
               ELSE 0

\* s[i:] with a 1-based i
From(s, i) == SubSeq(s, i, Len(s))

\* os.path.splitext (posixpath): the extension starts at the last dot of the
\* last component, leading dots of the component not counted
splitext(p) ==
    LET sepIndex == rfind(p, sep)
        dotIndex == rfind(p, ".")
    IN  IF /\ dotIndex > sepIndex
           /\ \E i \in (sepIndex + 1)..(dotIndex - 1) : p[i] # "."
        THEN <<SubSeq(p, 1, dotIndex - 1), From(p, dotIndex)>>
        ELSE <<p, <<>>>>

\* os.path.basename
basename(p) == From(p, rfind(p, sep) + 1)

\* str.rstrip('/')
RECURSIVE rstripSep(_)
rstripSep(s) == IF s # <<>> /\ s[Len(s)] = sep THEN rstripSep(SubSeq(s, 1, Len(s) - 1)) ELSE s

\* str.lstrip(sep)
RECURSIVE lstrip(_)
lstrip(s) == IF s # <<>> /\ s[1] = sep THEN lstrip(Tail(s)) ELSE s

\* os.path.dirname
dirname(p) ==
    LET head == SubSeq(p, 1, rfind(p, sep))
    IN  IF head # <<>> /\ \E i \in 1..Len(head) : head[i] # sep
        THEN rstripSep(head)
        ELSE head

\* os.path.join of two components
join(a, b) ==
    IF b # <<>> /\ b[1] = sep THEN b
    ELSE IF a = <<>> \/ a[Len(a)] = sep THEN a \o b
    ELSE a \o <<sep>> \o b

\* s.startswith(old)
startswith(s, old) == Len(old) <= Len(s) /\ SubSeq(s, 1, Len(old)) = old

\* str.replace(old, new): every non-overlapping occurrence, left to right;
\* an empty old matches before every character and at the end
RECURSIVE replace(_, _, _)
replace(s, old, new) ==
    IF old = <<>>
    THEN IF s = <<>> THEN new ELSE new \o <<s[1]>> \o replace(Tail(s), old, new)
    ELSE IF s = <<>> THEN <<>>
    ELSE IF startswith(s, old) THEN new \o replace(From(s, Len(old) + 1), old, new)
    ELSE <<s[1]>> \o replace(Tail(s), old, new)

(***************************************************************************)
(* The module's tables.                                                    *)
(***************************************************************************)
required_checksums == <<"md5", "sha1", "sha256", "sha512">>

MODULE_PREFIX == "jsnoop.handlers"

DEFAULT_MODULE == "simplefile"

CLASSES ==
    [m \in {"archivefile", "javaclass", "manifest", "signature", "simplefile"} |->
        CASE m = "archivefile" -> "ArchiveFile"
          [] m = "javaclass"   -> "ClassFile"
          [] m = "manifest"    -> "ManifestFile"
          [] m = "signature"   -> "SignatureFile"
          [] m = "simplefile"  -> "SimpleFile"]

ExtMf == <<".", "m", "f">>
ExtRsa == <<".", "r", "s", "a">>
ExtDsa == <<".", "d", "s", "a">>
ExtClass == <<".", "c", "l", "a", "s", "s">>
ExtZip == <<".", "z", "i", "p">>
ExtGz == <<".", "g", "z">>
ExtBz2 == <<".", "b", "z", "2">>
ExtTar == <<".", "t", "a", "r">>
ExtJar == <<".", "j", "a", "r">>
ExtWar == <<".", "w", "a", "r">>
ExtSar == <<".", "s", "a", "r">>

MODULES ==
    [e \in {ExtMf, ExtRsa, ExtDsa, ExtClass, ExtZip, ExtGz, ExtBz2, ExtTar,
            ExtJar, ExtWar, ExtSar} |->
        CASE e = ExtMf -> "manifest"
          [] e \in {ExtRsa, ExtDsa} -> "signature"
          [] e = ExtClass -> "javaclass"
          [] OTHER -> "archivefile"]

(***************************************************************************)
(* State.                                                                  *)
(***************************************************************************)
VARIABLES
    ignored,    \* __IGNORED_EXTENSIONS: a list, duplicates possible
    LOADED,     \* __LOADED: fully qualified name -> loaded class
    loads,      \* history: how often each handler module's class was loaded
    last,       \* history: the most recent call, its arguments and outcome
    lastOp,     \* history: per extension, the last operation that named it
    objs,       \* the AbstractFile objects constructed and not yet finalized
    dirs,       \* file system: the directories that exist
    files,      \* file system: path -> content of the regular files
    wpc,        \* per worker thread: its position inside __handler_class
    wmod,       \* per worker thread: the module name it was called with
    wret,       \* per worker thread: the class its call returned
    log,        \* the records handed to a logger, in order
    io          \* a byte source being copied by persist, and the copy

vars == <<ignored, LOADED, loads, last, lastOp, objs, dirs, files, wpc, wmod, wret,
          log, io>>

registryVars == <<ignored, LOADED, loads, lastOp>>
entityVars == <<objs, dirs, files>>
workerVars == <<wpc, wmod, wret>>

\* an extension no table entry names
ExtZzz == <<".", "z", "z", "z">>

\* the extensions the ignore operations are called with (lower case)
IgnoreExts == {ExtMf, ExtZzz}

\* a filename argument: a string, or a value that is no string (None)
Str(s) == [isstr |-> TRUE, s |-> s]
None == [isstr |-> FALSE, s |-> <<>>]

\* the members of a list
Members(l) == {l[i] : i \in 1..Len(l)}

(***************************************************************************)
(* The ignore list.                                                        *)
(***************************************************************************)
\* get_known_extensions(): a fresh list of the table's keys
get_known_extensions == DOMAIN MODULES

\* lines 61-62 and 68-69: a single string becomes a one-element list, and
\* every element is lower-cased
lowered(arg) ==
    LET exts == IF arg.isstr THEN <<arg.s>> ELSE arg.l
    IN  [i \in 1..Len(exts) |-> lower(exts[i])]

\* ignore_extensions(arg).  The augmented assignment of line 63 makes
\* __IGNORED_EXTENSIONS a local name of the function (there is no `global`
\* statement), and the += reads that local name before anything was bound to
\* it: every call raises UnboundLocalError and the module's list is untouched.
ignore_extensions(arg) ==
    LET exts == lowered(arg)
        localBound == FALSE
    IN  IF localBound
        THEN [raised |-> "", ignored |-> ignored \o exts]
        ELSE [raised |-> "UnboundLocalError", ignored |-> ignored]

\* list.remove(x): removes the first occurrence
RECURSIVE remove(_, _)
remove(l, x) ==
    IF l = <<>> THEN <<>>
    ELSE IF l[1] = x THEN Tail(l)
    ELSE <<l[1]>> \o remove(Tail(l), x)

\* the loop of lines 70-72 over exts, on the list l
RECURSIVE unignore_loop(_, _)
unignore_loop(exts, l) ==
    IF exts = <<>> THEN l
    ELSE unignore_loop(Tail(exts),
                       IF exts[1] \in Members(l) THEN remove(l, exts[1]) ELSE l)

\* unignore_extensions(arg): reads the module's list and removes in place
unignore_extensions(arg) ==
    [raised |-> "", ignored |-> unignore_loop(lowered(arg), ignored)]

\* ignored_extensions(): the module's list itself, not a copy
ignored_extensions == ignored

\* is_ignored_extension(ext)
is_ignored_extension(ext) == lower(ext) \in Members(ignored)

(***************************************************************************)
(* The handler class loader and the classification.                        *)
(***************************************************************************)
\* lines 91-93: the fully qualified name of a module's handler class
fqn_of(module) == (MODULE_PREFIX \o "." \o module) \o "." \o CLASSES[module]

\* LOADED with fqn bound to the class
Bind(L, fqn, klass) == [f \in DOMAIN L \cup {fqn} |-> IF f = fqn THEN klass ELSE L[f]]

\* __handler_class(module), run without interruption on the cache L and the
\* load counts n: the class is loaded only when its name is not yet cached
handler_class(module, L, n) ==
    LET fqn == fqn_of(module)
    IN  IF fqn \notin DOMAIN L
        THEN [LOADED |-> Bind(L, fqn, CLASSES[module]),
              loads |-> [n EXCEPT ![module] = @ + 1],
              cls |-> CLASSES[module]]
        ELSE [LOADED |-> L, loads |-> n, cls |-> L[fqn]]

\* line 101: splitext raises TypeError for a filename that is no string
splitext_raises(filename) == IF filename.isstr THEN "" ELSE "TypeError"

\* an except clause that names ValueError only (not the code's)
caught_value_error(raised) == raised = "ValueError"

\* line 106: the bare except catches whatever lines 101-105 raise
caught(raised) == TRUE

\* lines 100-107 of get_handler: the module name chosen for a filename
get_handler_module(filename) ==
    LET r == splitext_raises(filename)
    IN  IF r # ""
        THEN IF caught(r) THEN [module |-> DEFAULT_MODULE, raised |-> ""]
             ELSE [module |-> "", raised |-> r]
        ELSE LET extension == lower(splitext(filename.s)[2])
             IN  [module |-> IF is_ignored_extension(extension) THEN DEFAULT_MODULE
                             ELSE IF extension \in DOMAIN MODULES THEN MODULES[extension]
                             ELSE DEFAULT_MODULE,
                  raised |-> ""]

\* get_handler(filename) on the cache L and the load counts n
get_handler(filename, L, n) ==
    LET m == get_handler_module(filename)
    IN  IF m.raised # ""
        THEN [LOADED |-> L, loads |-> n, cls |-> "", raised |-> m.raised]
        ELSE [LOADED |-> handler_class(m.module, L, n).LOADED,
              loads |-> handler_class(m.module, L, n).loads,
              cls |-> handler_class(m.module, L, n).cls,
              raised |-> ""]

(***************************************************************************)
(* The file system and the operating-system calls persist and __del__ use. *)
(***************************************************************************)
\* the process's working directory
Cwd == <<"/", "w">>

\* tempfile.gettempdir()
TempRoot == <<"/", "t", "m", "p">>

\* the prefix persist passes to mkdtemp
TempPrefix == <<"j", "s", "n", "o", "o", "p", ".", "f", "i", "l", "e", ".",
                "p", "e", "r", "s", "i", "s", "t", ".">>

Digits == <<"1", "2", "3", "4", "5", "6">>

\* the directories mkdtemp(prefix='jsnoop.file.persist.') may create
TempDir(i) == join(TempRoot, TempPrefix \o <<Digits[i]>>)
TempDirs == {TempDir(i) : i \in 1..MaxTemp}

\* a path without repeated or trailing separators
RECURSIVE squeeze(_)
squeeze(p) ==
    IF p = <<>> THEN <<>>
    ELSE IF p[1] = sep /\ (Len(p) = 1 \/ p[2] = sep) THEN squeeze(Tail(p))
    ELSE <<p[1]>> \o squeeze(Tail(p))

\* the absolute path the kernel resolves p to; the empty path names nothing
Resolve(p) ==
    IF p = <<>> THEN <<>>
    ELSE LET abs == IF p[1] = sep THEN p ELSE join(Cwd, p)
             q == squeeze(abs)
         IN  IF q = <<>> THEN <<sep>> ELSE <<sep>> \o lstrip(q)

\* path a is b or lies below b (both resolved)
Below(a, b) == a = b \/ b = <<sep>> \/ startswith(a, b \o <<sep>>)

\* the ancestors of a resolved path, the path itself included
Ancestors(r) == {SubSeq(r, 1, i) : i \in {j \in 2..Len(r) : j = Len(r) \/ r[j + 1] = sep}}

\* os.path.exists, os.path.isfile
exists(p, D, F) == Resolve(p) \in D \/ Resolve(p) \in DOMAIN F
isfile(p, F) == Resolve(p) \in DOMAIN F

\* os.makedirs(name): FileExistsError when name exists, else name and its
\* missing ancestors are created
makedirs(name, D, F) ==
    IF exists(name, D, F) \/ name = <<>>
    THEN [raised |-> "FileExistsError", dirs |-> D]
    ELSE [raised |-> "", dirs |-> D \cup Ancestors(Resolve(name))]

\* shutil.rmtree(path): removes the directory and all below it; raises when
\* path is no existing directory
rmtree(path, D, F) ==
    LET r == Resolve(path)
    IN  IF r \notin D
        THEN [raised |-> "OSError", dirs |-> D, files |-> F]
        ELSE [raised |-> "",
              dirs |-> {d \in D : ~Below(d, r)},
              files |-> [f \in {g \in DOMAIN F : ~Below(g, r)} |-> F[f]]]

\* F with path p holding content c
WriteFile(F, p, c) == [f \in DOMAIN F \cup {p} |-> IF f = p THEN c ELSE F[f]]

(***************************************************************************)
(* Byte sources.                                                           *)
(***************************************************************************)
\* fileobj: None, an open file object over some bytes, or a closed one
NoFile == "None"
ClosedFile == "closed"
\* contents: the bytes of a valid container, and bytes that are none
Container == "Z"
Plain == "N"
FileObjs == {NoFile, Container, Plain, ClosedFile}

\* pyrus.checksum.hexdigest(input, algorithm) of the given content
hexdigest(content, algorithm) == <<algorithm, content>>

\* an absent parent digest (None)
NoDigest == <<>>

\* parent_path=None: a value that is no string (no path holds this element)
NoPrefix == <<"None">>

(***************************************************************************)
(* AbstractFile.                                                           *)
(***************************************************************************)
\* what the environment does to a construction: nothing, a failing mkdtemp,
\* a failing write of the transient file, or a failing read while the digest
\* number FaultAt is computed
Faults == {"none", "mkdtemp", "write", "digest"}

\* the filepath property: the on-disk copy once there is one
filepath_of(o) == IF o.ondisk = <<>> THEN o.filepathAttr ELSE o.ondisk

\* the bytes a readable byte source or an existing file holds
content_of(o, F) ==
    IF o.fileobj # NoFile THEN o.fileobj ELSE F[Resolve(filepath_of(o))]

\* a persist condition that does not ask the class (not the code's)
needs_disk_always(fileobj, inmemory) == fileobj # NoFile

\* line 155: whether persist goes to disk
NeedsDisk(fileobj, inmemory) == fileobj # NoFile /\ ~inmemory

\* AbstractFile.persist on object o; tmp is the directory mkdtemp creates
persist(o, tmp, fault, D, F) ==
    LET o0 == [o EXCEPT !.ondiskSet = TRUE, !.ondisk = <<>>]
        temp_file == join(tmp, o.filepathAttr)
        made == makedirs(dirname(temp_file), D \cup {tmp}, F)
        o1 == [o0 EXCEPT !.tempdir = tmp]
    IN  IF ~NeedsDisk(o.fileobj, o.inmemory)
        THEN [obj |-> o0, dirs |-> D, files |-> F, raised |-> ""]
        ELSE IF fault = "mkdtemp"
        THEN [obj |-> o0, dirs |-> D, files |-> F, raised |-> "OSError"]
        ELSE IF made.raised # ""
        THEN [obj |-> o1, dirs |-> made.dirs, files |-> F, raised |-> made.raised]
        ELSE IF o.fileobj = ClosedFile
        THEN [obj |-> o1, dirs |-> made.dirs, files |-> F, raised |-> "ValueError"]
        ELSE IF Resolve(temp_file) \in made.dirs
        THEN [obj |-> o1, dirs |-> made.dirs, files |-> F, raised |-> "IsADirectoryError"]
        ELSE IF fault = "write"
        THEN [obj |-> o1, dirs |-> made.dirs,
              files |-> WriteFile(F, Resolve(temp_file), ""), raised |-> "OSError"]
        ELSE [obj |-> [o1 EXCEPT !.ondisk = temp_file], dirs |-> made.dirs,
              files |-> WriteFile(F, Resolve(temp_file), o.fileobj), raised |-> ""]

\* the digests of the first n required algorithms over content c
Digests(c, n) ==
    [a \in {required_checksums[i] : i \in 1..n} |-> hexdigest(c, a)]

\* a prepare_checksums that keeps the digests it has when a read fails (not
\* the code's)
prepare_checksums_partial(o, fault, D, F) ==
    IF o.fileobj = NoFile /\ ~(exists(filepath_of(o), D, F) /\ isfile(filepath_of(o), F))
    THEN [obj |-> o, raised |-> "AssertionError"]
    ELSE IF o.fileobj = ClosedFile
    THEN [obj |-> [o EXCEPT !.checksums = Digests("", 0)], raised |-> "ValueError"]
    ELSE [obj |-> [o EXCEPT !.checksums =
                        Digests(content_of(o, F),
                                IF fault = "digest" THEN FaultAt - 1
                                ELSE Len(required_checksums)),
                            !.hexcalls = Len(required_checksums)],
          raised |-> ""]

\* a prepare_checksums without the assertion of line 176 (not the code's):
\* the digest of a missing file is asked for, and the provider's open fails
prepare_checksums_unchecked(o, fault, D, F) ==
    IF o.fileobj = NoFile /\ ~(exists(filepath_of(o), D, F) /\ isfile(filepath_of(o), F))
    THEN [obj |-> [o EXCEPT !.hexcalls = 1], raised |-> "FileNotFoundError"]
    ELSE IF o.fileobj = ClosedFile
    THEN [obj |-> [o EXCEPT !.hexcalls = 1], raised |-> "ValueError"]
    ELSE IF fault = "digest"
    THEN [obj |-> [o EXCEPT !.checksums = Digests(content_of(o, F), FaultAt - 1),
                            !.hexcalls = FaultAt],
          raised |-> "OSError"]
    ELSE [obj |-> [o EXCEPT !.checksums =
                        Digests(content_of(o, F), Len(required_checksums)),
                            !.hexcalls = Len(required_checksums)],
          raised |-> ""]

\* AbstractFile.prepare_checksums on object o; hexcalls counts the calls of
\* hexdigest
prepare_checksums(o, fault, D, F) ==
    IF o.fileobj = NoFile /\ ~(exists(filepath_of(o), D, F) /\ isfile(filepath_of(o), F))
    THEN [obj |-> o, raised |-> "AssertionError"]
    ELSE IF o.fileobj = ClosedFile
    THEN [obj |-> [o EXCEPT !.checksums = Digests("", 0), !.hexcalls = 1],
          raised |-> "ValueError"]
    ELSE IF fault = "digest"
    THEN [obj |-> [o EXCEPT !.checksums = Digests(content_of(o, F), FaultAt - 1),
                            !.hexcalls = FaultAt],
          raised |-> "OSError"]
    ELSE [obj |-> [o EXCEPT !.checksums =
                        Digests(content_of(o, F), Len(required_checksums)),
                            !.hexcalls = Len(required_checksums)],
          raised |-> ""]

\* AbstractFile.__init__ for an object of class cls; str.replace of line 128
\* raises TypeError for a parent_path that is no string, before persist
AbstractFile_init(cls, inmemory, filepath, fileobj, parent_path, parent_sha512, tmp, fault, D, F) ==
    LET o == [cls |-> cls, inmemory |-> inmemory,
              filepathAttr |-> filepath,
              fileobj |-> fileobj,
              path |-> IF parent_path = NoPrefix THEN <<>>
                       ELSE dirname(lstrip(replace(filepath, parent_path, <<>>))),
              name |-> basename(filepath),
              type |-> lower(splitext(filepath)[2]),
              parent |-> parent_sha512,
              ondiskSet |-> FALSE, ondisk |-> <<>>, tempdir |-> <<>>,
              checksums |-> Digests("", 0), hexcalls |-> 0,
              returned |-> FALSE, from |-> 0]
        p == persist(o, tmp, fault, D, F)
        c == prepare_checksums(p.obj, fault, p.dirs, p.files)
    IN  IF parent_path = NoPrefix
        THEN [obj |-> o, dirs |-> D, files |-> F, raised |-> "TypeError"]
        ELSE IF p.raised # "" THEN p
        ELSE [obj |-> c.obj, dirs |-> p.dirs, files |-> p.files, raised |-> c.raised]

\* the constructor of a handler class: AbstractFile.__init__, after which
\* ArchiveFile rejects bytes that are no container with ValueError
Construct(cls, inmemory, filepath, fileobj, parent_path, parent_sha512, tmp, fault, D, F) ==
    LET r == AbstractFile_init(cls, inmemory, filepath, fileobj, parent_path,
                               parent_sha512, tmp, fault, D, F)
    IN  IF r.raised = "" /\ cls = "ArchiveFile" /\ content_of(r.obj, r.files) # Container
        THEN [r EXCEPT !.raised = "ValueError"]
        ELSE r

\* AbstractFile.info
info(o) ==
    [key \in {"path", "name", "type", "parent", "handler"} \cup DOMAIN o.checksums |->
        CASE key = "path" -> o.path
          [] key = "name" -> o.name
          [] key = "type" -> o.type
          [] key = "parent" -> o.parent
          [] key = "handler" -> o.cls
          [] OTHER -> o.checksums[key]]

\* lines 167-169: the try block of __del__
del_try(o, D, F) ==
    IF ~o.ondiskSet
    THEN [raised |-> "AttributeError", dirs |-> D, files |-> F]
    ELSE IF o.ondisk = <<>>
    THEN [raised |-> "", dirs |-> D, files |-> F]
    ELSE rmtree(replace(o.ondisk, o.filepathAttr, <<>>), D, F)

\* an except clause that catches nothing (not the code's)
del_caught_nothing(raised) == FALSE

\* line 170: the bare except of __del__ catches whatever the try block raises
del_caught(raised) == TRUE

\* line 171: `pass`; nothing is handed to a logger for the failure caught
del_events(raised) == <<>>

\* AbstractFile.__del__: raised is what the try block raised, propagated
\* what leaves __del__
del(o, D, F) ==
    LET r == del_try(o, D, F)
    IN  [raised |-> r.raised,
         propagated |-> IF r.raised # "" /\ ~del_caught(r.raised) THEN r.raised ELSE "",
         events |-> IF r.raised # "" /\ del_caught(r.raised) THEN del_events(r.raised)
                    ELSE <<>>,
         dirs |-> r.dirs, files |-> r.files]

(***************************************************************************)
(* get_handler_obj.                                                        *)
(***************************************************************************)
\* a first attempt that follows the extension instead (not the code's)
extension_module(filepath) == get_handler_module(Str(filepath)).module

\* line 116: the handler module tried first, whatever the file path
forced_module(filepath) == "archivefile"

\* line 118: the failures of the first attempt that lead to the fallback
absorbed(raised) == raised = "ValueError"

\* a fallback that hands on no parent digest (not the code's)
fallback_args_rootless(filepath, fileobj, parent_path, parent_sha512) ==
    [filepath |-> filepath, fileobj |-> fileobj, parent_path |-> parent_path,
     parent_sha512 |-> NoDigest]

\* lines 118-120: nothing is handed to a logger when the fallback is taken
fallback_events(raised) == <<>>

\* the arguments line 120 hands to the extension's handler
fallback_args(filepath, fileobj, parent_path, parent_sha512) ==
    [filepath |-> filepath, fileobj |-> fileobj, parent_path |-> parent_path,
     parent_sha512 |-> parent_sha512]

\* how far persist got on object o: not to disk at all ("none"), stopped
\* before mkdtemp made a directory ("nodir"), stopped after it ("partial"),
\* or to the end ("done")
PersistOutcome(o) ==
    IF ~NeedsDisk(o.fileobj, o.inmemory) THEN "none"
    ELSE IF o.tempdir = <<>> THEN "nodir"
    ELSE IF o.ondisk = <<>> THEN "partial"
    ELSE "done"

\* what a path named when get_handler_obj was called
PathKind(filepath, D, F) ==
    IF isfile(filepath, F) THEN "file"
    ELSE IF exists(filepath, D, F) THEN "dir"
    ELSE "missing"

\* the from mark of an entity whose container's lifetime has ended
Orphan == MaxObjs + 1

\* the lowest free object slot, given the used ones
NextId(used) == CHOOSE i \in (1..MaxObjs) \ used : \A j \in (1..MaxObjs) \ used : i <= j

Put(O, i, o) == [j \in DOMAIN O \cup {i} |-> IF j = i THEN o ELSE O[j]]

\* the faults of fs that a construction can meet at all: mkdtemp and the
\* write are reached only when persist goes to disk
Reachable(fs, fileobj, inmemory) ==
    {f \in fs : f \in {"mkdtemp", "write"} => NeedsDisk(fileobj, inmemory)}

\* the name mkdtemp picks.  mkdtemp picks any unused name; the names differ
\* in their last character only, which nothing else looks at, so the model
\* takes the first unused one
TempChoices(fileobj, inmemory, fault, D) ==
    IF NeedsDisk(fileobj, inmemory) /\ fault # "mkdtemp"
    THEN {TempDir(i) : i \in {j \in 1..MaxTemp :
                                /\ TempDir(j) \notin D
                                /\ \A k \in 1..(j - 1) : TempDir(k) \in D}}
    ELSE {<<>>}

\* get_handler_obj(filepath, fileobj, parent_path, parent_sha512); from is the
\* container whose child the caller is classifying (0: none).  The inmemory
\* property of each class constructed and the environment's fault during each
\* construction are inputs, drawn from ins and fs.  An object whose constructor raised is referenced
\* by the exception only: its __del__ runs when the exception is dropped, for
\* the absorbed ValueError at the end of the except block (after the fallback
\* was constructed), for a propagated exception when the caller has handled
\* it.  Only a returned entity stays in objs.
get_handler_obj(filepath, fileobj, parent_path, parent_sha512, from, ins, fs) ==
    \E hc1 \in {handler_class(forced_module(filepath), LOADED, loads)},
       id \in {NextId(DOMAIN objs)},
       inA \in ins :
    \E fA \in Reachable(fs, fileobj, inA) :
    \E tmpA \in TempChoices(fileobj, inA, fA, dirs) :
    \E r1 \in {Construct(hc1.cls, inA, filepath, fileobj, parent_path,
                         parent_sha512, tmpA, fA, dirs, files)} :
        IF r1.raised = ""
        THEN /\ objs' = Put(objs, id, [r1.obj EXCEPT !.from = from, !.returned = TRUE])
             /\ dirs' = r1.dirs
             /\ files' = r1.files
             /\ LOADED' = hc1.LOADED
             /\ loads' = hc1.loads
             /\ log' = log
             /\ last' = [op |-> "get_handler_obj", fileobj |-> fileobj,
                         pathWas |-> PathKind(filepath, dirs, files),
                         hexcalls |-> r1.obj.hexcalls,
                         firstPersist |-> PersistOutcome(r1.obj),
                         delRaised |-> {}, delPropagated |-> {},
                         first |-> "", fallback |-> FALSE,
                         raised |-> "", obj |-> id, partial |-> {}]
        ELSE IF ~absorbed(r1.raised)
        THEN \E d1 \in {del(r1.obj, r1.dirs, r1.files)} :
             /\ objs' = objs
             /\ dirs' = d1.dirs
             /\ files' = d1.files
             /\ LOADED' = hc1.LOADED
             /\ loads' = hc1.loads
             /\ log' = log \o d1.events
             /\ last' = [op |-> "get_handler_obj", fileobj |-> fileobj,
                         pathWas |-> PathKind(filepath, dirs, files),
                         hexcalls |-> r1.obj.hexcalls,
                         firstPersist |-> PersistOutcome(r1.obj),
                         delRaised |-> {d1.raised} \ {""},
                         delPropagated |-> {d1.propagated} \ {""},
                         first |-> r1.raised,
                         fallback |-> FALSE, raised |-> r1.raised, obj |-> 0,
                         partial |-> {DOMAIN r1.obj.checksums}]
        ELSE \E hc2 \in {get_handler(Str(filepath), hc1.LOADED, hc1.loads)},
                a \in {fallback_args(filepath, fileobj, parent_path, parent_sha512)},
                inF \in ins :
             \E fF \in Reachable(fs, fileobj, inF) :
             \E tmpF \in TempChoices(fileobj, inF, fF, r1.dirs) :
             \E r2 \in {Construct(hc2.cls, inF, a.filepath, a.fileobj,
                                  a.parent_path, a.parent_sha512,
                                  tmpF, fF, r1.dirs, r1.files)} :
             \E d1 \in {del(r1.obj, r2.dirs, r2.files)} :
             \E d2 \in {IF r2.raised = "" THEN d1 ELSE del(r2.obj, d1.dirs, d1.files)} :
                 /\ objs' = IF r2.raised = ""
                            THEN Put(objs, id, [r2.obj EXCEPT !.from = from,
                                                              !.returned = TRUE])
                            ELSE objs
                 /\ dirs' = d2.dirs
                 /\ files' = d2.files
                 /\ LOADED' = hc2.LOADED
                 /\ loads' = hc2.loads
                 /\ log' = (log \o fallback_events(r1.raised)) \o
                           (d1.events \o (IF r2.raised = "" THEN <<>> ELSE d2.events))
                 /\ last' = [op |-> "get_handler_obj", fileobj |-> fileobj,
                             pathWas |-> PathKind(filepath, dirs, files),
                             hexcalls |-> r1.obj.hexcalls + r2.obj.hexcalls,
                             firstPersist |-> PersistOutcome(r1.obj),
                             delRaised |-> {d1.raised, d2.raised} \ {""},
                             delPropagated |-> {d1.propagated, d2.propagated} \ {""},
                             first |-> r1.raised,
                             fallback |-> TRUE, raised |-> r2.raised,
                             obj |-> IF r2.raised = "" THEN id ELSE 0,
                             partial |-> IF r2.raised = "" THEN {}
                                         ELSE {DOMAIN r2.obj.checksums}]

(***************************************************************************)
(* Inputs.                                                                 *)
(***************************************************************************)
\* "d/a.mf": relative, with a directory, an extension mapped to manifest
PathDirMf == <<"d", "/", "a", ".", "m", "f">>
\* "a.zzz": no directory component, an extension no table entry names
PathFlatZzz == <<"a", ".", "z", "z", "z">>
\* "/x/a.jar": absolute
PathAbsJar == <<"/", "x", "/", "a", ".", "j", "a", "r">>
\* "tmp/j": relative, and a substring of every transient directory's name
PathTmpJ == <<"t", "m", "p", "/", "j">>

\* "d": an existing directory, no regular file
PathDir == <<"d">>

FilePaths == {PathDirMf, PathFlatZzz, PathAbsJar, PathTmpJ}

\* the paths classified without byte source
DiskPaths == FilePaths \cup {PathDir}

\* the member paths of the decompositions
TreePaths == {PathDirMf, PathTmpJ}

(***************************************************************************)
(* Initial state: the module just imported, nothing constructed; on disk   *)
(* the working directory holds d/a.mf, a file that is no container.        *)
(***************************************************************************)
Init ==
    /\ ignored = <<>>
    /\ LOADED = <<>>
    /\ loads = [m \in DOMAIN CLASSES |-> 0]
    /\ last = [op |-> "import"]
    /\ lastOp = [e \in IgnoreExts |-> "none"]
    /\ objs = <<>>
    /\ dirs = {<<sep>>, TempRoot, Cwd, join(Cwd, dirname(PathDirMf))}
    /\ files = [f \in {join(Cwd, PathDirMf)} |-> Plain]
    /\ wpc = [w \in 1..MaxWorkers |-> "idle"]
    /\ wmod = [w \in 1..MaxWorkers |-> ""]
    /\ wret = [w \in 1..MaxWorkers |-> ""]
    /\ log = <<>>
    /\ io = [step |-> "none"]

(***************************************************************************)
(* Actions on entities.                                                    *)
(***************************************************************************)
\* the transient directories that exist and belong to no entity
Leaked == {t \in TempDirs \cap dirs : \A i \in DOMAIN objs : objs[i].tempdir # t}

\* the caller classifies one file at a time (it holds no other entity) with
\* any byte source, and the environment may fail; no parent path or digest
ClassifyRoot ==
    /\ objs = <<>>
    /\ Cardinality(Leaked) < MaxLeaked
    /\ \E filepath \in FilePaths, fileobj \in FileObjs :
           get_handler_obj(filepath, fileobj, <<>>, NoDigest, 0, BOOLEAN, Faults)
    /\ UNCHANGED <<ignored, lastOp, workerVars, io>>

\* the caller decomposes: it classifies a root container while it may hold
\* other entities; in the decompositions every class needs the disk and the
\* environment does not fail
DecomposeRoot ==
    /\ DOMAIN objs # 1..MaxObjs
    /\ \E filepath \in TreePaths :
           get_handler_obj(filepath, Container, <<>>, NoDigest, 0, {FALSE}, {"none"})
    /\ UNCHANGED <<ignored, lastOp, workerVars, io>>

\* the caller classifies a child of a container entity c it was given: c's
\* path is the parent prefix and c's sha512 digest the parent digest
DecomposeChild ==
    /\ DOMAIN objs # 1..MaxObjs
    /\ \E c \in DOMAIN objs :
           /\ objs[c].cls = "ArchiveFile"
           /\ \E filepath \in TreePaths, fileobj \in {Container, Plain} :
                  get_handler_obj(filepath, fileobj, objs[c].filepathAttr,
                                  objs[c].checksums["sha512"], c, {FALSE}, {"none"})
    /\ UNCHANGED <<ignored, lastOp, workerVars, io>>

\* the caller classifies a member of a container entity c it was given: the
\* member's path is the container's path followed by the member's name, the
\* container's path is the parent prefix; the class may need the disk or not
DecomposeMember ==
    /\ DOMAIN objs # 1..MaxObjs
    /\ \E c \in DOMAIN objs :
           /\ objs[c].cls = "ArchiveFile"
           /\ objs[c].from = 0
           /\ \E member \in TreePaths, fileobj \in {Container, Plain} :
                  get_handler_obj(join(objs[c].filepathAttr, member), fileobj,
                                  objs[c].filepathAttr, objs[c].checksums["sha512"],
                                  c, BOOLEAN, {"none"})
    /\ UNCHANGED <<ignored, lastOp, workerVars, io>>

\* the lifetime of object i ends: __del__ runs, its failure is swallowed
Del ==
    \E i \in DOMAIN objs :
        \E d \in {del(objs[i], dirs, files)} :
            /\ dirs' = d.dirs
            /\ files' = d.files
            /\ objs' = [j \in DOMAIN objs \ {i} |->
                           IF objs[j].from = i THEN [objs[j] EXCEPT !.from = Orphan]
                           ELSE objs[j]]
            /\ log' = log \o d.events
            /\ last' = [op |-> "__del__", tempdir |-> objs[i].tempdir,
                        ondisk |-> objs[i].ondisk, swallowed |-> d.raised,
                        propagated |-> d.propagated,
                        removedDirs |-> dirs \ d.dirs,
                        removedFiles |-> DOMAIN files \ DOMAIN d.files]
            /\ UNCHANGED <<registryVars, workerVars, io>>

\* the caller classifies a path on disk, without byte source, while it may
\* hold other entities; it passes no parent path, as '' or as None
ClassifyOnDisk ==
    /\ DOMAIN objs # 1..MaxObjs
    /\ \E filepath \in DiskPaths, parent_path \in {<<>>, NoPrefix} :
           get_handler_obj(filepath, NoFile, parent_path, NoDigest, 0, {FALSE}, {"none"})
    /\ UNCHANGED <<ignored, lastOp, workerVars, io>>

\* the caller classifies an open byte source, container or not, while it
\* may hold other entities; every class needs the disk, nothing fails
ClassifyStream ==
    /\ DOMAIN objs # 1..MaxObjs
    /\ \E filepath \in TreePaths, fileobj \in {Container, Plain} :
           get_handler_obj(filepath, fileobj, <<>>, NoDigest, 0, {FALSE}, {"none"})
    /\ UNCHANGED <<ignored, lastOp, workerVars, io>>

(***************************************************************************)
(* The operations a caller can invoke on an entity it holds.               *)
(***************************************************************************)
\* where an object's bytes are, and the directory __del__ would remove
Storage(o) ==
    [backing |-> IF o.ondisk = <<>> THEN "caller" ELSE "transient",
     copy |-> o.ondisk,
     releases |-> IF o.ondisk = <<>> THEN <<>>
                  ELSE Resolve(replace(o.ondisk, o.filepathAttr, <<>>))]

\* the caller calls persist() on entity i once more
PersistAgain ==
    \E i \in DOMAIN objs :
    \E tmp \in TempChoices(objs[i].fileobj, objs[i].inmemory, "none", dirs) :
    \E r \in {persist(objs[i], tmp, "none", dirs, files)} :
        /\ objs' = [objs EXCEPT ![i] = r.obj]
        /\ dirs' = r.dirs
        /\ files' = r.files
        /\ last' = [op |-> "persist", obj |-> i, raised |-> r.raised,
                    before |-> Storage(objs[i]), after |-> Storage(r.obj)]
        /\ UNCHANGED <<registryVars, workerVars, log, io>>

\* the caller assigns entity i's filepath (lines 147-149)
AssignFilepath ==
    \E i \in DOMAIN objs, value \in TreePaths :
        /\ value # objs[i].filepathAttr
        /\ objs' = [objs EXCEPT ![i].filepathAttr = value]
        /\ last' = [op |-> "filepath.setter", obj |-> i, raised |-> "",
                    before |-> Storage(objs[i]),
                    after |-> Storage([objs[i] EXCEPT !.filepathAttr = value])]
        /\ UNCHANGED <<registryVars, dirs, files, workerVars, log, io>>

\* the caller calls info() on entity i
InfoCall ==
    \E i \in DOMAIN objs :
        /\ last' = [op |-> "info", obj |-> i, raised |-> "",
                    before |-> Storage(objs[i]), after |-> Storage(objs[i]),
                    info |-> info(objs[i])]
        /\ UNCHANGED <<registryVars, entityVars, workerVars, log, io>>

\* the caller calls prepare_checksums() on entity i once more
PrepareChecksumsCall ==
    \E i \in DOMAIN objs :
    \E r \in {prepare_checksums(objs[i], "none", dirs, files)} :
        /\ objs' = [objs EXCEPT ![i] = [r.obj EXCEPT !.hexcalls = objs[i].hexcalls]]
        /\ last' = [op |-> "prepare_checksums", obj |-> i, raised |-> r.raised,
                    before |-> Storage(objs[i]), after |-> Storage(r.obj)]
        /\ UNCHANGED <<registryVars, dirs, files, workerVars, log, io>>

(***************************************************************************)
(* Actions on the ignore list and the classification.                      *)
(***************************************************************************)
ExtMfUpper == <<".", "M", "F">>
ExtZzzMixed == <<".", "Z", "z", "z">>

\* an ignore argument: one string, or a list of strings
One(e) == [isstr |-> TRUE, s |-> e, l |-> <<>>]
Many(l) == [isstr |-> FALSE, s |-> <<>>, l |-> l]

IgnoreArgs == {One(ExtMf), One(ExtMfUpper), One(ExtZzz), Many(<<ExtMf, ExtZzz>>)}

\* lastOp after an operation op naming the extensions of arg; an extension
\* the caller put on the list directly stays marked as such
Named(arg, op) ==
    [e \in IgnoreExts |->
        IF e \in Members(lowered(arg)) /\ lastOp[e] # "alias" THEN op ELSE lastOp[e]]

IgnoreExtensions ==
    \E arg \in IgnoreArgs :
        LET r == ignore_extensions(arg)
        IN  /\ Len(r.ignored) <= MaxIgnored
            /\ ignored' = r.ignored
            /\ lastOp' = Named(arg, "ignore")
            /\ last' = [op |-> "ignore_extensions", arg |-> arg, raised |-> r.raised,
                        before |-> Members(ignored)]
            /\ UNCHANGED <<LOADED, loads, entityVars, workerVars, log, io>>

UnignoreExtensions ==
    \E arg \in IgnoreArgs :
        LET r == unignore_extensions(arg)
        IN  /\ ignored' = r.ignored
            /\ lastOp' = Named(arg, "unignore")
            /\ last' = [op |-> "unignore_extensions", arg |-> arg, raised |-> r.raised,
                        before |-> Members(ignored)]
            /\ UNCHANGED <<LOADED, loads, entityVars, workerVars, log, io>>

\* the caller appends to the list ignored_extensions() handed out: the list
\* is the module's own, so the module's state changes
CallerAppends(e) ==
    /\ Len(ignored_extensions) < MaxIgnored
    /\ ignored' = Append(ignored_extensions, e)
    /\ lastOp' = [lastOp EXCEPT ![e] = "alias"]
    /\ last' = [op |-> "ignored_extensions.append", arg |-> e]
    /\ UNCHANGED <<LOADED, loads, entityVars, workerVars, log, io>>

\* file names for get_handler: a stem followed by an extension as written
Stems == {<<"a">>, <<"d", ".", "x", "/", "a">>, <<"a", ".", "b">>}
ExtsWritten == {ExtMf, ExtMfUpper, ExtZzz, ExtZzzMixed, ExtJar}
\* ".mf": a hidden file, which has no extension; "a": no dot at all
HiddenMf == ExtMf
FileNames ==
    {Str(st \o e) : st \in Stems, e \in ExtsWritten}
        \cup {Str(HiddenMf), Str(<<"a">>), None}

GetHandler ==
    \E filename \in FileNames :
        LET hc == get_handler(filename, LOADED, loads)
        IN  /\ LOADED' = hc.LOADED
            /\ loads' = hc.loads
            /\ last' = [op |-> "get_handler", filename |-> filename,
                        cls |-> hc.cls, raised |-> hc.raised]
            /\ UNCHANGED <<ignored, lastOp, entityVars, workerVars, log, io>>

(***************************************************************************)
(* __handler_class called by several threads of one process: a thread may  *)
(* be suspended between the test of line 94 and the load of line 95.       *)
(***************************************************************************)
Workers == 1..MaxWorkers

\* lines 91-94: the thread is called with a module name and tests the cache
HandlerClassTest(w) ==
    /\ wpc[w] = "idle"
    /\ \E module \in DOMAIN CLASSES :
           /\ wmod' = [wmod EXCEPT ![w] = module]
           /\ wpc' = [wpc EXCEPT ![w] =
                         IF fqn_of(module) \notin DOMAIN LOADED THEN "load" ELSE "return"]
    /\ wret' = [wret EXCEPT ![w] = ""]
    /\ UNCHANGED <<ignored, LOADED, loads, last, lastOp, entityVars, log, io>>

\* line 95: the thread loads the class and stores it in the cache
HandlerClassLoad(w) ==
    /\ wpc[w] = "load"
    /\ LOADED' = Bind(LOADED, fqn_of(wmod[w]), CLASSES[wmod[w]])
    /\ loads' = [loads EXCEPT ![wmod[w]] = @ + 1]
    /\ wpc' = [wpc EXCEPT ![w] = "return"]
    /\ UNCHANGED <<ignored, last, lastOp, entityVars, wmod, wret, log, io>>

\* line 96: the thread returns the cached class
HandlerClassReturn(w) ==
    /\ wpc[w] = "return"
    /\ wret' = [wret EXCEPT ![w] = LOADED[fqn_of(wmod[w])]]
    /\ wpc' = [wpc EXCEPT ![w] = "idle"]
    /\ UNCHANGED <<ignored, LOADED, loads, last, lastOp, entityVars, wmod, log, io>>

(***************************************************************************)
(* The copy persist makes, byte by byte: lines 159-162 on a byte source    *)
(* with content and read position.                                         *)
(***************************************************************************)
Bytes == {"a", "b"}

\* the byte strings of length at most n
Contents(n) == UNION {[1..k -> Bytes] : k \in 0..n}

\* a seek that leaves the position alone (not the code's)
seek_ignored(f, offset) == f

\* fileobj.seek(offset)
seek(f, offset) == [f EXCEPT !.pos = offset]

\* fileobj.read(): the bytes from the position to the end, the position
\* moves to the end
read(f) ==
    [data |-> From(f.content, f.pos + 1),
     f |-> [f EXCEPT !.pos = IF f.pos > Len(f.content) THEN f.pos ELSE Len(f.content)]]

\* lines 159-162: seek(0), write(read()), seek(0)
persist_copy(f) ==
    LET r == read(seek(f, 0))
    IN  [written |-> r.data, f |-> seek(r.f, 0)]

\* a caller opens a byte source and reads some of it before handing it in
OpenSource ==
    /\ io.step = "none"
    /\ \E content \in Contents(MaxLen) :
       \E pos \in 0..Len(content) :
           io' = [step |-> "open", handedAt |-> pos,
                  f |-> [content |-> content, pos |-> pos],
                  written |-> <<>>, digested |-> <<>>]
    /\ UNCHANGED <<registryVars, last, entityVars, workerVars, log>>

\* persist copies the byte source to the transient file
PersistCopy ==
    /\ io.step = "open"
    /\ io' = [io EXCEPT !.step = "persisted",
                        !.written = persist_copy(io.f).written,
                        !.f = persist_copy(io.f).f]
    /\ UNCHANGED <<registryVars, last, entityVars, workerVars, log>>

\* line 182: hexdigest reads the byte source from where it stands
DigestSource ==
    /\ io.step = "persisted"
    /\ io' = [io EXCEPT !.step = "digested",
                        !.digested = read(io.f).data,
                        !.f = read(io.f).f]
    /\ UNCHANGED <<registryVars, last, entityVars, workerVars, log>>

\* the entity and its byte source are dropped
CloseSource ==
    /\ io.step = "digested"
    /\ io' = [step |-> "none"]
    /\ UNCHANGED <<registryVars, last, entityVars, workerVars, log>>

(***************************************************************************)
(* Specifications.                                                         *)
(***************************************************************************)
\* entities: classification into objects, their lifetimes, and the one
\* ignore-list change that matters to the paths classified
Next ==
    \/ ClassifyRoot
    \/ Del
    \/ (ignored = <<>> /\ CallerAppends(ExtMf))

Spec == Init /\ [][Next]_vars

\* decomposition: several entities at a time, containers and their children
NextTree ==
    \/ DecomposeRoot
    \/ DecomposeChild
    \/ Del

SpecTree == Init /\ [][NextTree]_vars

\* the ignore list and the classification by name
NextRegistry ==
    \/ IgnoreExtensions
    \/ UnignoreExtensions
    \/ \E e \in IgnoreExts : CallerAppends(e)
    \/ GetHandler

SpecRegistry == Init /\ [][NextRegistry]_vars

\* a caller holding several entities, some backed by its own path, some
\* materialized
NextStorage == ClassifyOnDisk \/ ClassifyStream \/ Del

SpecStorage == Init /\ [][NextStorage]_vars

\* a caller decomposing containers into their members
NextMembers == DecomposeRoot \/ DecomposeMember \/ Del

SpecMembers == Init /\ [][NextMembers]_vars

\* a caller that keeps using the entities it holds
NextOps ==
    \/ DecomposeRoot
    \/ PersistAgain
    \/ AssignFilepath
    \/ InfoCall
    \/ PrepareChecksumsCall
    \/ Del

SpecOps == Init /\ [][NextOps]_vars

\* the copy of one byte source after the other
NextCopy == OpenSource \/ PersistCopy \/ DigestSource \/ CloseSource

SpecCopy == Init /\ [][NextCopy]_vars

\* worker threads resolving handler classes
NextWorkers ==
    \E w \in Workers :
        \/ HandlerClassTest(w)
        \/ HandlerClassLoad(w)
        \/ HandlerClassReturn(w)

SpecWorkers == Init /\ [][NextWorkers]_vars

(***************************************************************************)
(* Properties of classification.                                           *)
(***************************************************************************)
\* the kind the extension tables name for the paths of FilePaths, written
\* out: .mf is the manifest kind unless ignored, .jar the container kind,
\* .zzz and no extension the default kind
KindOfPath(filepath) ==
    IF filepath = PathDirMf
    THEN IF ExtMf \in Members(ignored) THEN "SimpleFile" ELSE "ManifestFile"
    ELSE IF filepath = PathAbsJar
    THEN IF ExtJar \in Members(ignored) THEN "SimpleFile" ELSE "ArchiveFile"
    ELSE "SimpleFile"

\* C1: an entity get_handler_obj returns for bytes that are a valid
\* container has the handler ArchiveFile, whatever its extension and the
\* ignore list; an entity returned after the Archive attempt failed with
\* ValueError has the handler kind of its extension (the default kind when
\* the extension is unmapped or ignored); an entity returned without a failed
\* attempt is the Archive attempt's.
C1_ForcedArchiveFirst ==
    (last.op = "get_handler_obj" /\ last.obj # 0) =>
        LET o == objs[last.obj]
        IN  /\ last.fileobj = Container => info(o)["handler"] = "ArchiveFile"
            /\ last.first = "" => info(o)["handler"] = "ArchiveFile"
            /\ last.first = "ValueError" =>
                   /\ last.fallback
                   /\ info(o)["handler"] = KindOfPath(o.filepathAttr)

\* C1's case: bytes that are no container under the ignored extension .mf
\* came back as the default kind
C1_Witness ==
    /\ last.op = "get_handler_obj"
    /\ last.obj # 0
    /\ last.first = "ValueError"
    /\ last.fileobj = Plain
    /\ ExtMf \in Members(ignored)
    /\ objs[last.obj].filepathAttr = PathDirMf
    /\ objs[last.obj].cls = "SimpleFile"

\* the lower-case spelling of the extensions of ExtsWritten, written out
LowerCaseOf(e) ==
    IF e = ExtMfUpper THEN ExtMf ELSE IF e = ExtZzzMixed THEN ExtZzz ELSE e

\* the class the extension table names, written out for ExtsWritten
TableKind(e) ==
    IF e = ExtMf THEN "ManifestFile" ELSE IF e = ExtJar THEN "ArchiveFile" ELSE "SimpleFile"

\* C2: get_handler of a name with an extension returns the default kind when
\* the lower-cased extension is on the ignore list, whatever the table says,
\* and otherwise what the table maps the lower-cased extension to, the
\* default kind when the table has no entry.
C2_Classification ==
    last.op = "get_handler" =>
        \A st \in Stems, e \in ExtsWritten :
            last.filename = Str(st \o e) =>
                last.cls = IF LowerCaseOf(e) \in Members(ignored) THEN "SimpleFile"
                           ELSE TableKind(LowerCaseOf(e))

\* C2's case: a name ending in .MF was classified while .mf is ignored
C2_Witness ==
    /\ last.op = "get_handler"
    /\ last.filename = Str(<<"a">> \o ExtMfUpper)
    /\ ExtMf \in Members(ignored)
    /\ last.cls = "SimpleFile"

\* C5: get_handler raises nothing and resolves to a handler class for every
\* filename; the class is SimpleFile for an unknown extension, an ignored
\* extension and a filename that has no extension or is no string.
C5_NeverFails ==
    last.op = "get_handler" =>
        /\ last.raised = ""
        /\ last.cls \in {CLASSES[m] : m \in DOMAIN CLASSES}
        /\ last.filename \in {None, Str(HiddenMf), Str(<<"a">>)} => last.cls = "SimpleFile"
        /\ \A st \in Stems, e \in ExtsWritten :
               (/\ last.filename = Str(st \o e)
                /\ \/ LowerCaseOf(e) = ExtZzz
                   \/ LowerCaseOf(e) \in Members(ignored))
                   => last.cls = "SimpleFile"

\* C5's case: a filename that is no string was classified
C5_Witness ==
    /\ last.op = "get_handler"
    /\ last.filename = None
    /\ last.raised = ""
    /\ last.cls = "SimpleFile"

(***************************************************************************)
(* Properties of the ignore list.                                          *)
(***************************************************************************)
\* C3 as stated: an extension is treated as ignored by the classification
\* exactly when the most recent of the ignore_extensions and
\* unignore_extensions calls naming it was ignore_extensions (the extensions
\* a caller put on the list by hand are left aside).
C3_Stated ==
    \A e \in IgnoreExts :
        lastOp[e] \in {"ignore", "unignore"} =>
            /\ is_ignored_extension(e) <=> lastOp[e] = "ignore"
            /\ lastOp[e] = "ignore" =>
                   get_handler_module(Str(<<"a">> \o e)).module = DEFAULT_MODULE

\* C4 as stated: ignore_extensions and unignore_extensions raise nothing, with
\* a single string and with a list; ignoring what is ignored and unignoring
\* what is not leave the members of the ignore list as they were, and the
\* known extensions are those of the table throughout.
C4_Stated ==
    /\ get_known_extensions = DOMAIN MODULES
    /\ last.op \in {"ignore_extensions", "unignore_extensions"} =>
           /\ last.raised = ""
           /\ (/\ last.op = "ignore_extensions"
               /\ Members(lowered(last.arg)) \subseteq last.before)
                  => Members(ignored) = last.before
           /\ (/\ last.op = "unignore_extensions"
               /\ Members(lowered(last.arg)) \cap last.before = {})
                  => Members(ignored) = last.before

(***************************************************************************)
(* Properties of get_handler_obj and of the entities.                      *)
(***************************************************************************)
\* C6 as stated: when the Archive attempt fails with something else than the
\* rejection of bytes that are no container (any exception that is no
\* ValueError, and the ValueError a closed byte source raises when it is
\* read), no extension handler is constructed, the caller gets that failure
\* and no entity.
C6_Stated ==
    (/\ last.op = "get_handler_obj"
     /\ last.first # ""
     /\ (last.first # "ValueError" \/ last.fileobj = ClosedFile))
        => /\ ~last.fallback
           /\ last.raised = last.first
           /\ last.obj = 0

\* the keys of a complete digest set, written out
RequiredKeys == {"md5", "sha1", "sha256", "sha512"}

\* C7: every entity a caller holds has digests for exactly md5, sha1, sha256
\* and sha512, and its info() has exactly those four next to path, name,
\* type, parent and handler; a get_handler_obj call that raised, also after
\* some digests were computed, gave the caller no entity.
C7_CompleteDigests ==
    /\ \A i \in DOMAIN objs :
           /\ DOMAIN objs[i].checksums = RequiredKeys
           /\ DOMAIN info(objs[i]) =
                  RequiredKeys \cup {"path", "name", "type", "parent", "handler"}
           /\ \A a \in RequiredKeys : info(objs[i])[a] = objs[i].checksums[a]
    /\ (last.op = "get_handler_obj" /\ last.raised # "") =>
           last.obj = 0

\* C7's case: the caller holds an entity the fallback built, with all four
\* digests in its info()
C7_Witness ==
    /\ last.op = "get_handler_obj"
    /\ last.obj # 0
    /\ last.fallback
    /\ DOMAIN info(objs[last.obj]) =
           RequiredKeys \cup {"path", "name", "type", "parent", "handler"}

C9_Stated ==
    (last.op = "__del__" /\ last.ondisk # <<>>) =>
        /\ Resolve(last.tempdir) \notin dirs
        /\ \A q \in last.removedDirs \cup last.removedFiles :
               Below(q, Resolve(last.tempdir))

\* C10 as stated: the class of each handler module is loaded at most once,
\* whatever the interleaving of the threads, and every thread that returned
\* got the cached class.
C10_Stated ==
    /\ \A m \in DOMAIN CLASSES : loads[m] <= 1
    /\ \A w \in Workers : wret[w] # "" => wret[w] = CLASSES[wmod[w]]

(***************************************************************************)
(* Properties of construction and of the transient storage.                *)
(***************************************************************************)
\* C11: a get_handler_obj call without byte source whose path is no existing
\* regular file fails during the first attempt, with the assertion of line
\* 176 (or earlier, with the TypeError of a parent path that is no string):
\* hexdigest was not called, nothing was absorbed, and the caller got no
\* entity.
C11_FailFast ==
    (/\ last.op = "get_handler_obj"
     /\ last.fileobj = NoFile
     /\ last.pathWas # "file")
        => /\ last.first \in {"AssertionError", "TypeError"}
           /\ last.raised = last.first
           /\ ~last.fallback
           /\ last.hexcalls = 0
           /\ last.obj = 0

\* C11's case: the path of an existing directory was classified without
\* byte source
C11_Witness ==
    /\ last.op = "get_handler_obj"
    /\ last.fileobj = NoFile
    /\ last.pathWas = "dir"
    /\ last.raised = "AssertionError"
    /\ last.hexcalls = 0

C14_Stated ==
    (/\ last.op = "get_handler_obj"
     /\ last.firstPersist = "partial")
        => Leaked = {}

\* C15 as stated: the copy of every materialized entity lies below the
\* transient directory made for that entity, whatever the file path given,
\* and no two entities the caller holds have the same transient directory or
\* the same copy.
C15_Stated ==
    /\ \A i \in DOMAIN objs :
           objs[i].ondisk # <<>> =>
               /\ Below(Resolve(objs[i].ondisk), Resolve(objs[i].tempdir))
               /\ Resolve(objs[i].ondisk) # Resolve(objs[i].tempdir)
    /\ \A i, j \in DOMAIN objs :
           (i # j /\ objs[i].ondisk # <<>> /\ objs[j].ondisk # <<>>) =>
               /\ objs[i].tempdir # objs[j].tempdir
               /\ Resolve(objs[i].ondisk) # Resolve(objs[j].ondisk)

\* C16 as stated: persist, the assignment of filepath, info and
\* prepare_checksums, called on an entity whose construction has finished,
\* leave unchanged whether its bytes are at the caller's path or in transient
\* storage, where the copy is, and which directory __del__ will remove.
C16_Stated ==
    last.op \in {"persist", "filepath.setter", "info", "prepare_checksums"} =>
        last.after = last.before

\* C17: what the removal of transient storage raises in __del__ does not
\* leave __del__: when it fails at the end of an entity's lifetime nothing is
\* removed and nothing reaches the caller; when it fails for the object of a
\* failed attempt inside get_handler_obj, also one that failed before persist
\* ran, the call ends as the constructions alone decide, with the entity of a
\* successful fallback returned.
C17_CleanupSwallowed ==
    /\ (last.op = "__del__" /\ last.swallowed # "") =>
           /\ last.propagated = ""
           /\ last.removedDirs = {}
           /\ last.removedFiles = {}
    /\ (last.op = "get_handler_obj" /\ last.delRaised # {}) =>
           /\ last.delPropagated = {}
           /\ last.raised = "" <=> last.obj # 0
           /\ last.raised = "" => last.obj \in DOMAIN objs
           /\ ~last.fallback => last.raised = last.first

\* C17's case: the removal of the failed Archive attempt's copy failed and the
\* fallback's entity was returned all the same
C17_Witness ==
    /\ last.op = "get_handler_obj"
    /\ last.fallback
    /\ "OSError" \in last.delRaised
    /\ last.raised = ""
    /\ last.obj \in DOMAIN objs

\* C18 as stated: a failed removal of transient storage, at the end of a
\* lifetime or for a failed attempt inside get_handler_obj, and a fallback
\* from the Archive attempt to the extension's handler each leave a record
\* with the logger.
C18_Stated ==
    /\ (last.op = "__del__" /\ last.swallowed # "") => log # <<>>
    /\ (last.op = "get_handler_obj" /\ last.delRaised # {}) => log # <<>>
    /\ (last.op = "get_handler_obj" /\ last.fallback) => log # <<>>

\* s without the prefix p, when it starts with p
StripPrefix(s, p) == IF startswith(s, p) THEN From(s, Len(p) + 1) ELSE s

\* the parent prefix an entity was classified with, while its container is
\* held
ParentPrefix(o) == IF o.from \in DOMAIN objs THEN objs[o.from].filepathAttr ELSE <<>>

\* C19 as stated: a materialized entity works on its transient copy, and the
\* path, name and type of its info() are those of the path the caller gave:
\* the directory of that path with the parent prefix stripped, its last
\* component, and its lower-cased extension.
C19_Stated ==
    \A i \in DOMAIN objs :
        LET o == objs[i]
        IN  (o.ondisk # <<>> /\ o.from \in DOMAIN objs \cup {0}) =>
                /\ filepath_of(o) = o.ondisk
                /\ info(o)["path"] =
                       dirname(lstrip(StripPrefix(o.filepathAttr, ParentPrefix(o))))
                /\ info(o)["name"] = basename(o.filepathAttr)
                /\ info(o)["type"] = lower(splitext(o.filepathAttr)[2])

\* C20 as stated: an extension is on the ignore list only when the last
\* operation that put it there or took it off was ignore_extensions, and the
\* known extensions are those of the table in every state.
C20_Stated ==
    /\ \A e \in Members(ignored) : e \in IgnoreExts /\ lastOp[e] = "ignore"
    /\ get_known_extensions = DOMAIN MODULES

====
